---- MODULE Spec2Model ----
(***************************************************************************)
(* A model of the WorldCup2022 board game engine (src/worldcup2022.h):     *)
(* the Player operations, the twelve board fields with their pass and land *)
(* effects, Board::playerMove and the round/turn loop of                   *)
(* WorldCup2022::play.                                                     *)
(*                                                                         *)
(* Three specifications share the definitions:                             *)
(*   Spec        a whole game: addDie / addPlayer / setScoreBoard calls,   *)
(*               then one play(rounds) call run step by step;              *)
(*   SpecBoard   Board::playerMove called directly on freshly constructed  *)
(*               players and a freshly constructed board;                  *)
(*   SpecPlayer  the Player operations called directly on one player.      *)
(***************************************************************************)
EXTENDS Integers, Sequences, FiniteSets, TLC

\* ------------------------------------------------------------- bounds
\* most calls of addPlayer / addDie the game harness makes before play
MaxPlayers == 12
MaxDice == 3
\* play(r) is called with r <= MaxRounds and players * r <= MaxTurns
MaxRounds == 2
MaxTurns == 4
\* most direct playerMove calls (SpecBoard) and Player calls (SpecPlayer)
MaxMoves == 3
MaxCalls == 3

\* the Die is an external collaborator: the outcomes the injected dice may
\* produce, the second die added and every other die
FirstDieFaces == {0, 1, 6}
SecondDieFaces == {0, 4}
DieAdded(k) == IF k = 2 THEN SecondDieFaces ELSE FirstDieFaces
\* step counts handed to playerMove in SpecBoard
StepChoices == {0, 1, 2, 4, 7, 12, 13}
\* amounts handed to pay / take in SpecPlayer
Amounts == {0, 50, 180, 1000}

\* ---------------------------------------------------- program constants
diceCountThree == 2 + 1
diceCount == 2
StartMoney == 1000
MaxPlayersAllowedOffByOne == 11 + 1
MaxPlayersAllowed == 11
MinPlayersAllowed == 2
BookmakerCycle == 3

NULL == "nullptr"
\* a die is the set of outcomes it may produce; the null die pointer has none
NullDie == {}

Min(a, b) == IF a <= b THEN a ELSE b

RECURSIVE SumSeq(_)
SumSeq(s) == IF s = << >> THEN 0 ELSE Head(s) + SumSeq(Tail(s))

\* ------------------------------------------------------------- Player
NewPlayer(name) ==
    [name |-> name, money |-> StartMoney, field |-> 0, suspension |-> 0,
     bankrupted |-> FALSE]

bankrupt(pl) == pl.bankrupted

waitingOffByOne(pl) == pl.suspension > 1

waiting(pl) == pl.suspension > 0

getStatusWaitingFirst(pl) ==
    IF waiting(pl) THEN <<"*** czekanie: ", pl.suspension, " ***">>
    ELSE IF bankrupt(pl) THEN <<"*** bankrut ***">>
    ELSE <<"w grze">>

\* the status string, kept as its label and the number printed in it
getStatus(pl) ==
    IF bankrupt(pl) THEN <<"*** bankrut ***">>
    ELSE IF waiting(pl) THEN <<"*** czekanie: ", pl.suspension, " ***">>
    ELSE <<"w grze">>

waitIfNeededKeepsLast(pl) ==
    IF pl.suspension > 1 THEN [pl EXCEPT !.suspension = @ - 1] ELSE pl

waitIfNeeded(pl) ==
    IF pl.suspension > 0 THEN [pl EXCEPT !.suspension = @ - 1] ELSE pl

suspend(pl, k) == [pl EXCEPT !.suspension = k]

move(pl, f) == [pl EXCEPT !.field = f]

payGreaterOnly(pl, a) ==
    IF pl.money > a
    THEN [p |-> [pl EXCEPT !.money = @ - a], ret |-> a]
    ELSE [p |-> [pl EXCEPT !.bankrupted = TRUE, !.money = 0], ret |-> pl.money]

\* pay returns the player after the call and the amount actually paid
pay(pl, a) ==
    IF pl.money >= a
    THEN [p |-> [pl EXCEPT !.money = @ - a], ret |-> a]
    ELSE [p |-> [pl EXCEPT !.bankrupted = TRUE, !.money = 0], ret |-> pl.money]

takeAlways(pl, a) == [p |-> [pl EXCEPT !.money = @ + a], ret |-> TRUE]

\* take returns the player after the call and whether the credit was accepted
take(pl, a) ==
    IF ~pl.bankrupted
    THEN [p |-> [pl EXCEPT !.money = @ + a], ret |-> TRUE]
    ELSE [p |-> pl, ret |-> FALSE]

\* -------------------------------------------------------------- Board
\* a Match weight w is kept as the fraction wnum / wden (1.0, 2.5, 4.0)
Beginning(n) == [kind |-> "Beginning", name |-> n, amount |-> 50, wnum |-> 0, wden |-> 1]
Goal(n, bonus) == [kind |-> "Goal", name |-> n, amount |-> bonus, wnum |-> 0, wden |-> 1]
Penalty(n, fee) == [kind |-> "Penalty", name |-> n, amount |-> fee, wnum |-> 0, wden |-> 1]
YellowCard(n, s) == [kind |-> "YellowCard", name |-> n, amount |-> s, wnum |-> 0, wden |-> 1]
Bookmaker(n, bet) == [kind |-> "Bookmaker", name |-> n, amount |-> bet, wnum |-> 0, wden |-> 1]
Match(n, fee, wn, wd) == [kind |-> "Match", name |-> n, amount |-> fee, wnum |-> wn, wden |-> wd]
EmptyField(n) == [kind |-> "EmptyField", name |-> n, amount |-> 0, wnum |-> 0, wden |-> 1]

fieldsShortSuspension ==
    << Beginning("Poczatek sezonu"),
       Match("Mecz z San Marino", 160, 1, 1),
       EmptyField("Dzien wolny od treningu"),
       Match("Mecz z Liechtensteinem", 220, 1, 1),
       YellowCard("Zolta kartka", 2),
       Match("Mecz z Meksykiem", 300, 5, 2),
       Match("Mecz z Arabia Saudyjska", 280, 5, 2),
       Bookmaker("Bukmacher", 100),
       Match("Mecz z Argentyna", 250, 5, 2),
       Goal("Gol", 120),
       Match("Mecz z Francja", 400, 4, 1),
       Penalty("Rzut karny", 180) >>

\* fields[0..11] of the Board, as the sequence fields[1..12]
fields ==
    << Beginning("Poczatek sezonu"),
       Match("Mecz z San Marino", 160, 1, 1),
       EmptyField("Dzien wolny od treningu"),
       Match("Mecz z Liechtensteinem", 220, 1, 1),
       YellowCard("Zolta kartka", 3),
       Match("Mecz z Meksykiem", 300, 5, 2),
       Match("Mecz z Arabia Saudyjska", 280, 5, 2),
       Bookmaker("Bukmacher", 100),
       Match("Mecz z Argentyna", 250, 5, 2),
       Goal("Gol", 120),
       Match("Mecz z Francja", 400, 4, 1),
       Penalty("Rzut karny", 180) >>

FieldCount == Len(fields)
FieldIdx == 0 .. FieldCount - 1
FieldAt(f) == fields[f + 1]
MatchFields == {f \in FieldIdx : FieldAt(f).kind = "Match"}

getFieldName(f) == FieldAt(f).name

NoCall == [op |-> "none"]

\* An effect takes the player, the Match pools (howMuchMoney per Match
\* field) and the Bookmaker's counter, and returns them after the effect
\* with a record of the one Player operation it called.
passFieldFullFee(f, pl, hm, bk) ==
    LET fld == FieldAt(f) IN
    CASE fld.kind = "Beginning" ->
           LET t == take(pl, fld.amount) IN
           [p |-> t.p, hm |-> hm, bk |-> bk,
            call |-> [op |-> "take", arg |-> fld.amount, ret |-> t.ret]]
      [] fld.kind = "Match" ->
           LET r == pay(pl, fld.amount) IN
           [p |-> r.p, hm |-> [hm EXCEPT ![f] = @ + fld.amount], bk |-> bk,
            call |-> [op |-> "pay", arg |-> fld.amount, ret |-> r.ret]]
      [] OTHER -> [p |-> pl, hm |-> hm, bk |-> bk, call |-> NoCall]

passField(f, pl, hm, bk) ==
    LET fld == FieldAt(f) IN
    CASE fld.kind = "Beginning" ->
           LET t == take(pl, fld.amount) IN
           [p |-> t.p, hm |-> hm, bk |-> bk,
            call |-> [op |-> "take", arg |-> fld.amount, ret |-> t.ret]]
      [] fld.kind = "Match" ->
           LET r == pay(pl, fld.amount) IN
           [p |-> r.p, hm |-> [hm EXCEPT ![f] = @ + r.ret], bk |-> bk,
            call |-> [op |-> "pay", arg |-> fld.amount, ret |-> r.ret]]
      [] OTHER -> [p |-> pl, hm |-> hm, bk |-> bk, call |-> NoCall]

PayoutUnweighted(f, hm) == hm[f]

PayoutRounded(f, hm) ==
    (2 * hm[f] * FieldAt(f).wnum + FieldAt(f).wden) \div (2 * FieldAt(f).wden)

\* howMuchMoney * weight, converted to int (truncated)
Payout(f, hm) == (hm[f] * FieldAt(f).wnum) \div FieldAt(f).wden

bookmakerNextCycleTwo(bk) == (bk + 1) % 2

bookmakerNextSaturating(bk) == Min(bk + 1, BookmakerCycle - 1)

bookmakerNext(bk) == (bk + 1) % BookmakerCycle

landOnField(f, pl, hm, bk) ==
    LET fld == FieldAt(f) IN
    CASE fld.kind = "Beginning" \/ fld.kind = "Goal" ->
           LET t == take(pl, fld.amount) IN
           [p |-> t.p, hm |-> hm, bk |-> bk,
            call |-> [op |-> "take", arg |-> fld.amount, ret |-> t.ret]]
      [] fld.kind = "Penalty" ->
           LET r == pay(pl, fld.amount) IN
           [p |-> r.p, hm |-> hm, bk |-> bk,
            call |-> [op |-> "pay", arg |-> fld.amount, ret |-> r.ret]]
      [] fld.kind = "YellowCard" ->
           [p |-> suspend(pl, fld.amount), hm |-> hm, bk |-> bk,
            call |-> [op |-> "suspend", arg |-> fld.amount]]
      [] fld.kind = "Bookmaker" ->
           IF bk = 0
           THEN LET t == take(pl, fld.amount) IN
                [p |-> t.p, hm |-> hm, bk |-> bookmakerNext(bk),
                 call |-> [op |-> "take", arg |-> fld.amount, ret |-> t.ret]]
           ELSE LET r == pay(pl, fld.amount) IN
                [p |-> r.p, hm |-> hm, bk |-> bookmakerNext(bk),
                 call |-> [op |-> "pay", arg |-> fld.amount, ret |-> r.ret]]
      [] fld.kind = "Match" ->
           LET t == take(pl, Payout(f, hm)) IN
           [p |-> t.p, hm |-> IF t.ret THEN [hm EXCEPT ![f] = 0] ELSE hm,
            bk |-> bk,
            call |-> [op |-> "take", arg |-> Payout(f, hm), ret |-> t.ret]]
      [] OTHER -> [p |-> pl, hm |-> hm, bk |-> bk, call |-> NoCall]

\* -------------------------------------------------------------- state
VARIABLES
    heap,             \* the Player objects ever created, by identity 1, 2, ...
    players,          \* WorldCup2022::players: the roster, a vector of identities
    dice,             \* Dice::dice: the dice added, each the set of its outcomes
    scoreboard,       \* WorldCup2022::scoreboard: NULL or "set"
    log,              \* the notifications the scoreboard has received
    howMuchMoney,     \* Match::howMuchMoney of every Match field
    bookmakerPlayers, \* Bookmaker::players
    pc,               \* the position of the running call
    exc,              \* the exception thrown out of play, NULL when none
    rounds,           \* play's parameter
    roundNumber,      \* play's local roundNumber
    i,                \* play's loop index (0-based)
    diceResult,       \* playerMove's parameter i: the steps to move
    currentField,     \* playerMove's local currentField
    nextField,        \* playerMove's local nextField
    counter,          \* playerMove's local counter
    effects,          \* history: the effects invoked by the current playerMove
    call,             \* history: the Player operation the last effect called
    bookLog,          \* history: the last three landings on the Bookmaker
    bookLandings,     \* history: the number of landings on the Bookmaker
    paidSince,        \* history: per Match field, what pay returned to it at
                      \* each pass since its last accepted payout
    calls,            \* number of direct calls made (SpecBoard, SpecPlayer)
    fixedRolls,       \* the totals the test's FixedDie makes the dice give,
                      \* in turn and cyclically; << >> when the dice are free
    rolled            \* FixedDie::current: how many rolls were made

vars == <<heap, players, dice, scoreboard, log, howMuchMoney, bookmakerPlayers,
          pc, exc, rounds, roundNumber, i, diceResult, currentField, nextField,
          counter, effects, call, bookLog, bookLandings, paidSince, calls,
          fixedRolls,
          rolled>>

gameVars == <<players, dice, scoreboard, log, exc, rounds, roundNumber>>
diceVars == <<fixedRolls, rolled>>
moveVars == <<diceResult, currentField, nextField, counter, effects>>
boardVars == <<howMuchMoney, bookmakerPlayers, bookLog, bookLandings,
               paidSince>>

\* the state after WorldCup2022's constructor
Init ==
    /\ heap = << >>
    /\ players = << >>
    /\ dice = << >>
    /\ scoreboard = NULL
    /\ log = << >>
    /\ howMuchMoney = [f \in MatchFields |-> 0]
    /\ bookmakerPlayers = 0
    /\ pc = "setup"
    /\ exc = NULL
    /\ rounds = 0
    /\ roundNumber = 0
    /\ i = 0
    /\ diceResult = 0
    /\ currentField = 0
    /\ nextField = 0
    /\ counter = 0
    /\ effects = << >>
    /\ call = NoCall
    /\ bookLog = << >>
    /\ bookLandings = 0
    /\ paidSince = [f \in MatchFields |-> << >>]
    /\ calls = 0
    /\ fixedRolls = << >>
    /\ rolled = 0

MoverOffByOne == players[((i + 1) % Len(players)) + 1]

\* the player whose turn or move is being processed
Mover == players[i + 1]

\* the scoreboard's record after a notification; with no scoreboard set the
\* call goes through a null pointer (see NullScoreBoardCrash)
Emit(e) == IF scoreboard = NULL THEN log ELSE Append(log, e)

\* ------------------------------------------------------- configuration
AddDie(die) ==
    /\ pc = "setup"
    /\ Len(dice) < MaxDice
    /\ dice' = IF die # NullDie THEN Append(dice, die) ELSE dice
    /\ UNCHANGED <<heap, players, scoreboard, log, boardVars, pc, exc, rounds,
                   roundNumber, i, moveVars, call, calls,
                   diceVars>>

\* the k-th player added is named k
AddPlayer ==
    /\ pc = "setup"
    /\ Len(heap) < MaxPlayers
    /\ heap' = Append(heap, NewPlayer(Len(heap) + 1))
    /\ players' = Append(players, Len(heap) + 1)
    /\ UNCHANGED <<dice, scoreboard, log, boardVars, pc, exc, rounds,
                   roundNumber, i, moveVars, call, calls,
                   diceVars>>

SetScoreBoard(sb) ==
    /\ pc = "setup"
    /\ scoreboard' = IF sb # NULL THEN sb ELSE scoreboard
    /\ UNCHANGED <<heap, players, dice, log, boardVars, pc, exc, rounds,
                   roundNumber, i, moveVars, call, calls,
                   diceVars>>

\* ------------------------------------------------------------ playerMove
\* lines 249-251: the locals of playerMove(player, steps)
PlayerMoveEntry(pl, steps) ==
    /\ diceResult' = steps
    /\ currentField' = pl.field
    /\ nextField' = (pl.field + steps) % FieldCount
    /\ counter' = 0
    /\ effects' = << >>

passLoopCondInclusive == counter < diceResult

passLoopCondNotEqual == counter + 1 # diceResult

passLoopCondStopsWhenBankrupt ==
    counter + 1 < diceResult /\ ~bankrupt(heap[Mover])

passLoopCondSkipsFullLap ==
    counter + 1 < diceResult /\ nextField # currentField

\* line 252: while (counter + 1 < i)
passLoopCond == counter + 1 < diceResult

\* lines 253-255: one pass-effect
PassStep ==
    /\ pc = "pass"
    /\ passLoopCond
    /\ LET f == (currentField + counter + 1) % FieldCount
           r == passField(f, heap[Mover], howMuchMoney, bookmakerPlayers)
       IN /\ heap' = [heap EXCEPT ![Mover] = r.p]
          /\ howMuchMoney' = r.hm
          /\ bookmakerPlayers' = r.bk
          /\ call' = r.call
          /\ effects' = Append(effects, <<"pass", f>>)
          /\ paidSince' = IF f \in MatchFields
                          THEN [paidSince EXCEPT ![f] = Append(@, r.call.ret)]
                          ELSE paidSince
    /\ counter' = counter + 1
    /\ UNCHANGED <<gameVars, pc, i, diceResult, currentField, nextField,
                   bookLog, bookLandings, calls,
                   diceVars>>

\* the last three landings on the Bookmaker, the newest last
BookLogAfter(f, before, after) ==
    IF FieldAt(f).kind # "Bookmaker" THEN bookLog
    ELSE LET e == [before |-> before.money, wasBankrupt |-> before.bankrupted,
                   after |-> after.money, isBankrupt |-> after.bankrupted]
             l == Append(bookLog, e)
         IN IF Len(l) > BookmakerCycle THEN Tail(l) ELSE l

\* lines 257-258: relocation, then the land-effect of the destination
Land ==
    /\ pc = "pass"
    /\ ~passLoopCond
    /\ LET moved == move(heap[Mover], nextField)
           r == landOnField(moved.field, moved, howMuchMoney, bookmakerPlayers)
       IN /\ heap' = [heap EXCEPT ![Mover] = r.p]
          /\ howMuchMoney' = r.hm
          /\ bookmakerPlayers' = r.bk
          /\ call' = r.call
          /\ effects' = effects \o << <<"move", moved.field>>,
                                      <<"land", moved.field>> >>
          /\ bookLog' = BookLogAfter(moved.field, moved, r.p)
          /\ bookLandings' = IF FieldAt(moved.field).kind = "Bookmaker"
                             THEN bookLandings + 1 ELSE bookLandings
          /\ paidSince' = IF moved.field \in MatchFields /\ r.call.ret
                          THEN [paidSince EXCEPT ![moved.field] = << >>]
                          ELSE paidSince
    /\ pc' = "report"
    /\ UNCHANGED <<gameVars, i, diceResult, currentField, nextField, counter,
                   calls,
                   diceVars>>

\* ------------------------------------------------------------------ play
\* the round limits the harness passes to play
RoundChoices == {r \in 0 .. MaxRounds : Len(players) * r <= MaxTurns}

\* lines 309-312
PlayTooManyPlayers(r) ==
    /\ pc = "setup"
    /\ Len(players) > MaxPlayersAllowed
    /\ rounds' = r
    /\ pc' = "threw"
    /\ exc' = "TooManyPlayersException"
    /\ UNCHANGED <<heap, players, dice, scoreboard, log, boardVars,
                   roundNumber, i, moveVars, call, calls,
                   diceVars>>

\* lines 313-316
PlayTooFewPlayers(r) ==
    /\ pc = "setup"
    /\ ~(Len(players) > MaxPlayersAllowed)
    /\ Len(players) < MinPlayersAllowed
    /\ rounds' = r
    /\ pc' = "threw"
    /\ exc' = "TooFewPlayersException"
    /\ UNCHANGED <<heap, players, dice, scoreboard, log, boardVars,
                   roundNumber, i, moveVars, call, calls,
                   diceVars>>

\* line 318: validation passed
PlayBegin(r) ==
    /\ pc = "setup"
    /\ ~(Len(players) > MaxPlayersAllowed)
    /\ ~(Len(players) < MinPlayersAllowed)
    /\ rounds' = r
    /\ roundNumber' = 0
    /\ pc' = "while"
    /\ UNCHANGED <<heap, players, dice, scoreboard, log, boardVars, exc, i,
                   moveVars, call, calls,
                   diceVars>>

roundLoopCondNoRosterCheck == roundNumber < rounds

roundLoopCondInclusive == roundNumber <= rounds /\ Len(players) > 1

\* line 320: while (roundNumber < rounds && players.size() > 1)
roundLoopCond == roundNumber < rounds /\ Len(players) > 1

\* lines 321-323: a round starts
RoundStart ==
    /\ pc = "while"
    /\ roundLoopCond
    /\ log' = Emit(<<"onRound", roundNumber>>)
    /\ i' = 0
    /\ pc' = "for"
    /\ UNCHANGED <<heap, players, dice, scoreboard, boardVars, exc, rounds,
                   roundNumber, moveVars, call, calls,
                   diceVars>>

TurnWaitRollsAnyway ==
    /\ pc = "for"
    /\ i < Len(players)
    /\ LET pl == waitIfNeeded(heap[Mover])
       IN /\ waiting(pl)
          /\ heap' = [heap EXCEPT ![Mover] = pl]
    /\ rolled' = rolled + 1
    /\ pc' = "report"
    /\ UNCHANGED <<gameVars, boardVars, i, moveVars, call, calls, fixedRolls>>

\* lines 324-327 and 331: the player is still suspended after waitIfNeeded
TurnWait ==
    /\ pc = "for"
    /\ i < Len(players)
    /\ LET pl == waitIfNeeded(heap[Mover])
       IN /\ waiting(pl)
          /\ heap' = [heap EXCEPT ![Mover] = pl]
    /\ pc' = "report"
    /\ UNCHANGED <<gameVars, boardVars, i, moveVars, call, calls,
                   diceVars>>

\* Dice::roll, lines 42-46: the sum of one outcome of every die
RollSums ==
    {SumSeq(o) : o \in {q \in [1 .. Len(dice) -> UNION {dice[k] : k \in 1 .. Len(dice)}] :
                          \A k \in 1 .. Len(dice) : q[k] \in dice[k]}}

\* FixedDie::roll of the test, lines 191-197: the next total of the cyclic
\* list
FixedRoll == fixedRolls[(rolled % Len(fixedRolls)) + 1]

\* lines 324-329 and 249-251: the player rolls and playerMove begins
TurnRoll ==
    /\ pc = "for"
    /\ i < Len(players)
    /\ LET pl == waitIfNeeded(heap[Mover])
       IN /\ ~waiting(pl)
          /\ ~(Len(dice) < diceCount)
          /\ ~(Len(dice) > diceCount)
          /\ heap' = [heap EXCEPT ![Mover] = pl]
          /\ \E sum \in RollSums :
                /\ fixedRolls # << >> => sum = FixedRoll
                /\ PlayerMoveEntry(pl, sum)
    /\ rolled' = rolled + 1
    /\ pc' = "pass"
    /\ UNCHANGED <<gameVars, boardVars, i, call, calls, fixedRolls>>

\* Dice::roll, lines 36-38
TurnRollTooFewDice ==
    /\ pc = "for"
    /\ i < Len(players)
    /\ LET pl == waitIfNeeded(heap[Mover])
       IN /\ ~waiting(pl)
          /\ Len(dice) < diceCount
          /\ heap' = [heap EXCEPT ![Mover] = pl]
    /\ pc' = "threw"
    /\ exc' = "TooFewDiceException"
    /\ UNCHANGED <<players, dice, scoreboard, log, rounds, roundNumber,
                   boardVars, i, moveVars, call, calls,
                   diceVars>>

\* Dice::roll, lines 39-41
TurnRollTooManyDice ==
    /\ pc = "for"
    /\ i < Len(players)
    /\ LET pl == waitIfNeeded(heap[Mover])
       IN /\ ~waiting(pl)
          /\ ~(Len(dice) < diceCount)
          /\ Len(dice) > diceCount
          /\ heap' = [heap EXCEPT ![Mover] = pl]
    /\ pc' = "threw"
    /\ exc' = "TooManyDiceException"
    /\ UNCHANGED <<players, dice, scoreboard, log, rounds, roundNumber,
                   boardVars, i, moveVars, call, calls,
                   diceVars>>

EraseLast(s, k) == SubSeq(s, 1, Len(s) - 1)

\* players.erase(players.begin() + k), k 0-based
Erase(s, k) == SubSeq(s, 1, k) \o SubSeq(s, k + 2, Len(s))

ReportAdvanceAfterErase ==
    /\ pc = "report"
    /\ log' = Emit(<<"onTurn", heap[Mover].name, getStatus(heap[Mover]),
                     getFieldName(heap[Mover].field), heap[Mover].money>>)
    /\ players' = IF bankrupt(heap[Mover]) THEN Erase(players, i) ELSE players
    /\ i' = i + 1
    /\ IF bankrupt(heap[Mover]) /\ Len(players') = 1
       THEN roundNumber' = roundNumber + 1 /\ pc' = "while"
       ELSE roundNumber' = roundNumber /\ pc' = "for"
    /\ UNCHANGED <<heap, dice, scoreboard, boardVars, exc, rounds, moveVars,
                   call, calls, diceVars>>

ReportWithoutBreak ==
    /\ pc = "report"
    /\ log' = Emit(<<"onTurn", heap[Mover].name, getStatus(heap[Mover]),
                     getFieldName(heap[Mover].field), heap[Mover].money>>)
    /\ IF bankrupt(heap[Mover])
       THEN players' = Erase(players, i) /\ i' = i
       ELSE players' = players /\ i' = i + 1
    /\ roundNumber' = roundNumber
    /\ pc' = "for"
    /\ UNCHANGED <<heap, dice, scoreboard, boardVars, exc, rounds, moveVars,
                   call, calls, diceVars>>

\* lines 331-343 (and 345 after the break): the turn summary, then the
\* removal of a bankrupt player or the advance to the next player
Report ==
    /\ pc = "report"
    /\ log' = Emit(<<"onTurn", heap[Mover].name, getStatus(heap[Mover]),
                     getFieldName(heap[Mover].field), heap[Mover].money>>)
    /\ IF bankrupt(heap[Mover])
       THEN /\ players' = Erase(players, i)
            /\ i' = i
            /\ IF Len(players') = 1
               THEN roundNumber' = roundNumber + 1 /\ pc' = "while"
               ELSE roundNumber' = roundNumber /\ pc' = "for"
       ELSE /\ players' = players
            /\ i' = i + 1
            /\ roundNumber' = roundNumber
            /\ pc' = "for"
    /\ UNCHANGED <<heap, dice, scoreboard, boardVars, exc, rounds, moveVars,
                   call, calls,
                   diceVars>>

\* lines 323 and 345: the for loop ends, the round is over
RoundEnd ==
    /\ pc = "for"
    /\ ~(i < Len(players))
    /\ roundNumber' = roundNumber + 1
    /\ pc' = "while"
    /\ UNCHANGED <<heap, players, dice, scoreboard, log, boardVars, exc,
                   rounds, i, moveVars, call, calls,
                   diceVars>>

RECURSIVE winnerLoopLastOnTies(_, _)
winnerLoopLastOnTies(rest, winner) ==
    IF rest = << >> THEN winner
    ELSE winnerLoopLastOnTies(Tail(rest),
             IF heap[Head(rest)].money >= heap[winner].money
             THEN Head(rest) ELSE winner)

\* lines 352-356: the running best
RECURSIVE winnerLoop(_, _)
winnerLoop(rest, winner) ==
    IF rest = << >> THEN winner
    ELSE winnerLoop(Tail(rest),
             IF heap[Head(rest)].money > heap[winner].money
             THEN Head(rest) ELSE winner)

\* lines 350-358: the round loop has ended, the winner is reported
DeclareWinner ==
    /\ pc = "while"
    /\ ~roundLoopCond
    /\ log' = Emit(<<"onWin", heap[winnerLoop(players, players[1])].name>>)
    /\ pc' = "done"
    /\ UNCHANGED <<heap, players, dice, scoreboard, boardVars, exc, rounds,
                   roundNumber, i, moveVars, call, calls,
                   diceVars>>

\* A notification with no scoreboard set calls a virtual method through a
\* null shared_ptr (the constructor leaves scoreboard empty, line 268):
\* undefined behaviour. The process is killed (this action) or the call
\* passes with no effect (Emit leaves the log alone).
NullScoreBoardCrash ==
    /\ scoreboard = NULL
    /\ \/ pc = "while"
       \/ pc = "report"
    /\ pc' = "crashed"
    /\ UNCHANGED <<heap, players, dice, scoreboard, log, boardVars, exc,
                   rounds, roundNumber, i, moveVars, call, calls,
                   diceVars>>

Next ==
    \/ \E die \in {NullDie, DieAdded(Len(dice) + 1)} : AddDie(die)
    \/ AddPlayer
    \/ \E sb \in {NULL, "set"} : SetScoreBoard(sb)
    \/ \E r \in RoundChoices :
          PlayTooManyPlayers(r) \/ PlayTooFewPlayers(r) \/ PlayBegin(r)
    \/ RoundStart
    \/ TurnWait
    \/ TurnRoll
    \/ TurnRollTooFewDice
    \/ TurnRollTooManyDice
    \/ PassStep
    \/ Land
    \/ Report
    \/ RoundEnd
    \/ DeclareWinner
    \/ NullScoreBoardCrash

Spec == Init /\ [][Next]_vars

\* ------------------------------------------- Board called directly
\* two players and a board, all freshly constructed
InitBoard ==
    /\ heap = <<NewPlayer(1), NewPlayer(2)>>
    /\ players = <<1, 2>>
    /\ dice = << >>
    /\ scoreboard = NULL
    /\ log = << >>
    /\ howMuchMoney = [f \in MatchFields |-> 0]
    /\ bookmakerPlayers = 0
    /\ pc = "idle"
    /\ exc = NULL
    /\ rounds = 0
    /\ roundNumber = 0
    /\ i = 0
    /\ diceResult = 0
    /\ currentField = 0
    /\ nextField = 0
    /\ counter = 0
    /\ effects = << >>
    /\ call = NoCall
    /\ bookLog = << >>
    /\ bookLandings = 0
    /\ paidSince = [f \in MatchFields |-> << >>]
    /\ calls = 0
    /\ fixedRolls = << >>
    /\ rolled = 0

\* board.playerMove(players[k], steps) as play calls it, line 329: on a
\* player of the roster, which holds no bankrupt player between turns
CallPlayerMove(k, steps) ==
    /\ pc = "idle"
    /\ calls < MaxMoves
    /\ ~bankrupt(heap[players[k + 1]])
    /\ i' = k
    /\ PlayerMoveEntry(heap[players[k + 1]], steps)
    /\ pc' = "pass"
    /\ calls' = calls + 1
    /\ UNCHANGED <<heap, gameVars, boardVars, call, diceVars>>

\* playerMove returns
MoveReturn ==
    /\ pc = "report"
    /\ pc' = "idle"
    /\ UNCHANGED <<heap, gameVars, boardVars, i, moveVars, call, calls,
                   diceVars>>

NextBoard ==
    \/ \E k \in 0 .. Len(players) - 1 : \E steps \in StepChoices :
          CallPlayerMove(k, steps)
    \/ PassStep
    \/ Land
    \/ MoveReturn

SpecBoard == InitBoard /\ [][NextBoard]_vars

\* ------------------------------------------ Player called directly
\* one freshly constructed player
InitPlayer ==
    /\ heap = <<NewPlayer(1)>>
    /\ players = <<1>>
    /\ dice = << >>
    /\ scoreboard = NULL
    /\ log = << >>
    /\ howMuchMoney = [f \in MatchFields |-> 0]
    /\ bookmakerPlayers = 0
    /\ pc = "idle"
    /\ exc = NULL
    /\ rounds = 0
    /\ roundNumber = 0
    /\ i = 0
    /\ diceResult = 0
    /\ currentField = 0
    /\ nextField = 0
    /\ counter = 0
    /\ effects = << >>
    /\ call = NoCall
    /\ bookLog = << >>
    /\ bookLandings = 0
    /\ paidSince = [f \in MatchFields |-> << >>]
    /\ calls = 0
    /\ fixedRolls = << >>
    /\ rolled = 0

CallPay(a) ==
    /\ pc = "idle"
    /\ calls < MaxCalls
    /\ LET r == pay(heap[1], a)
       IN /\ heap' = [heap EXCEPT ![1] = r.p]
          /\ call' = [op |-> "pay", arg |-> a, ret |-> r.ret]
    /\ calls' = calls + 1
    /\ UNCHANGED <<gameVars, boardVars, pc, i, moveVars, diceVars>>

CallTake(a) ==
    /\ pc = "idle"
    /\ calls < MaxCalls
    /\ LET r == take(heap[1], a)
       IN /\ heap' = [heap EXCEPT ![1] = r.p]
          /\ call' = [op |-> "take", arg |-> a, ret |-> r.ret]
    /\ calls' = calls + 1
    /\ UNCHANGED <<gameVars, boardVars, pc, i, moveVars, diceVars>>

CallSuspend(k) ==
    /\ pc = "idle"
    /\ calls < MaxCalls
    /\ heap' = [heap EXCEPT ![1] = suspend(@, k)]
    /\ call' = [op |-> "suspend", arg |-> k]
    /\ calls' = calls + 1
    /\ UNCHANGED <<gameVars, boardVars, pc, i, moveVars, diceVars>>

CallWaitIfNeeded ==
    /\ pc = "idle"
    /\ calls < MaxCalls
    /\ heap' = [heap EXCEPT ![1] = waitIfNeeded(@)]
    /\ call' = [op |-> "waitIfNeeded"]
    /\ calls' = calls + 1
    /\ UNCHANGED <<gameVars, boardVars, pc, i, moveVars, diceVars>>

NextPlayer ==
    \/ \E a \in Amounts : CallPay(a)
    \/ \E a \in Amounts : CallTake(a)
    \/ \E k \in 0 .. 3 : CallSuspend(k)
    \/ CallWaitIfNeeded

SpecPlayer == InitPlayer /\ [][NextPlayer]_vars

\* ------------------------------------- whole games with the test's dice
\* the games of worldcup_test.cc: a FixedDie whose totals are listed and a
\* ZeroDie, a scoreboard, Player-1 .. Player-n
MaxFixedPlayers == 3
MaxFixedRounds == 7
PlayHundred == 100

\* totals with which three players reach a Match payout with a fractional
\* half: the tenth roll lands on a pool of 235 at weight 2.5
TruncationRolls == <<3, 1, 5, 7, 4, 3, 3, 7, 10, 4>>

\* the totals of tests 100, 506, 507, 600, 601, 602 and 603, and the above
FixedRollLists ==
    { <<2, 3, 4>>,
      <<2, 1>>,
      <<2, 1, 1, 2, 2, 5, 1, 4, 4, 1>>,
      <<12, 1>>,
      <<1, 12>>,
      <<1, 1, 2, 2, 1, 2, 1, 1, 2>>,
      <<1, 1>>,
      TruncationRolls }

FixedRoundChoices == (0 .. MaxFixedRounds) \cup {PlayHundred}

\* the state the test's Builder leaves: dice, players and scoreboard added
InitFixed ==
    /\ \E n \in MinPlayersAllowed .. MaxFixedPlayers :
          /\ heap = [k \in 1 .. n |-> NewPlayer(k)]
          /\ players = [k \in 1 .. n |-> k]
    /\ \E s \in FixedRollLists :
          /\ fixedRolls = s
          /\ dice = << {s[k] : k \in 1 .. Len(s)}, {0} >>
    /\ scoreboard = "set"
    /\ log = << >>
    /\ howMuchMoney = [f \in MatchFields |-> 0]
    /\ bookmakerPlayers = 0
    /\ pc = "setup"
    /\ exc = NULL
    /\ rounds = 0
    /\ roundNumber = 0
    /\ i = 0
    /\ diceResult = 0
    /\ currentField = 0
    /\ nextField = 0
    /\ counter = 0
    /\ effects = << >>
    /\ call = NoCall
    /\ bookLog = << >>
    /\ bookLandings = 0
    /\ paidSince = [f \in MatchFields |-> << >>]
    /\ calls = 0
    /\ rolled = 0

NextFixed ==
    \/ \E r \in FixedRoundChoices : PlayBegin(r)
    \/ RoundStart
    \/ TurnWait
    \/ TurnRoll
    \/ PassStep
    \/ Land
    \/ Report
    \/ RoundEnd
    \/ DeclareWinner

SpecFixed == InitFixed /\ [][NextFixed]_vars

\* play is one sequential call: once started, each of its steps is taken
FairFixed == SpecFixed /\ WF_vars(NextFixed)

\* ================================================================ claims

\* C1 (SpecPlayer): pay(a) on a player holding m: when a <= m the money
\* becomes m - a, a is returned and the bankrupt flag is unchanged; when
\* a > m the money becomes 0, the player is bankrupt and m is returned.
C1_PayContract ==
    [][(calls' = calls + 1 /\ call'.op = "pay") =>
          LET m == heap[1].money
              a == call'.arg
          IN IF a <= m
             THEN /\ heap'[1].money = m - a
                  /\ call'.ret = a
                  /\ heap'[1].bankrupted = heap[1].bankrupted
             ELSE /\ heap'[1].money = 0
                  /\ heap'[1].bankrupted
                  /\ call'.ret = m]_vars

\* a player paid exactly all its money and is not bankrupt
C1_Witness ==
    /\ pc = "idle"
    /\ call.op = "pay"
    /\ call.arg = StartMoney
    /\ call.ret = StartMoney
    /\ heap[1].money = 0
    /\ ~heap[1].bankrupted

\* a step of playerMove that invoked an effect on the moving player
EffectStep == pc = "pass" /\ (counter' = counter + 1 \/ pc' = "report")

\* C2 (Spec): a bankrupt player has money 0; once bankrupt, no step changes
\* the player's money or clears the flag; a take by a bankrupt player
\* reports failure.
C2_BankruptIsFinal ==
    /\ [](\A p \in DOMAIN heap : heap[p].bankrupted => heap[p].money = 0)
    /\ [][\A p \in DOMAIN heap :
            heap[p].bankrupted => heap'[p].bankrupted /\ heap'[p].money = 0]_vars
    /\ [][(EffectStep /\ heap[Mover].bankrupted /\ call'.op = "take")
            => call'.ret = FALSE]_vars

\* a player went bankrupt during a move and a later effect of the same move
\* tried to credit it
C2_Witness ==
    /\ pc = "report"
    /\ heap[Mover].bankrupted
    /\ heap[Mover].money = 0
    /\ call.op = "take"
    /\ call.ret = FALSE

\* C3 (SpecBoard): playerMove with steps >= 1 from field s invokes the
\* pass-effects of (s+1) mod 12, ..., (s+steps-1) mod 12 in that order, then
\* relocates the player to (s+steps) mod 12, then invokes the land-effect of
\* that field, and nothing else.
C3_MoveOrder ==
    (pc \in {"pass", "report"} /\ diceResult >= 1) =>
        LET passes == [k \in 1 .. diceResult - 1 |->
                          <<"pass", (currentField + k) % 12>>]
            dest == (currentField + diceResult) % 12
        IN IF pc = "report"
           THEN /\ effects = passes \o << <<"move", dest>>, <<"land", dest>> >>
                /\ heap[Mover].field = dest
           ELSE /\ counter <= diceResult - 1
                /\ effects = SubSeq(passes, 1, counter)
                /\ heap[Mover].field = currentField

\* a move of 13 steps from field 7 is complete: it wrapped past field 0
C3_Witness ==
    /\ pc = "report"
    /\ diceResult = 13
    /\ currentField = 7
    /\ Len(effects) = 14
    /\ effects[5] = <<"pass", 0>>
    /\ heap[Mover].field = 8

\* the Match field passed by a pass step, the field landed on by a land step
PassedField == (currentField + counter + 1) % FieldCount
PassOver(f) == pc = "pass" /\ counter' = counter + 1 /\ PassedField = f
LandOn(f) == pc = "pass" /\ pc' = "report" /\ nextField = f

\* C4 (SpecBoard): the pool of every Match field is the sum of what pay
\* returned at each pass since the field's last accepted payout (less than
\* the fee from an insolvent passer, 0 from a bankrupt one); a landing by a
\* non-bankrupt player empties the pool, a landing by a bankrupt player
\* leaves it as it is.
C4_PoolLedger ==
    /\ [](\A f \in MatchFields : howMuchMoney[f] = SumSeq(paidSince[f]))
    /\ [][\A f \in MatchFields :
            /\ PassOver(f) =>
                 LET paid == heap[Mover].money - heap'[Mover].money
                 IN /\ call'.op = "pay"
                    /\ call'.ret = paid
                    /\ paid = Min(call'.arg, heap[Mover].money)
                    /\ heap[Mover].bankrupted => paid = 0
                    /\ howMuchMoney'[f] = howMuchMoney[f] + paid
            /\ LandOn(f) =>
                 howMuchMoney'[f] =
                     IF heap[Mover].bankrupted THEN howMuchMoney[f] ELSE 0
            /\ ~PassOver(f) /\ ~LandOn(f) => howMuchMoney'[f] = howMuchMoney[f]]_vars

\* a bankrupt player landed on a Match field holding a pool, fed in part by
\* a partial payment elsewhere, and the pool is still there
C4_Witness ==
    /\ pc = "report"
    /\ heap[Mover].bankrupted
    /\ nextField \in MatchFields
    /\ howMuchMoney[nextField] > 0
    /\ call.op = "take"
    /\ call.ret = FALSE
    /\ \E f \in MatchFields :
          \E k \in 1 .. Len(paidSince[f]) :
             paidSince[f][k] > 0 /\ paidSince[f][k] < FieldAt(f).amount

\* C5 as stated: of any three consecutive landings on the Bookmaker exactly
\* one lander gains exactly 100 and the other two lose exactly 100 each.
C5_ExactBet ==
    Len(bookLog) = 3 =>
       \E k \in 1 .. 3 :
          /\ bookLog[k].after = bookLog[k].before + 100
          /\ \A j \in (1 .. 3) \ {k} : bookLog[j].after = bookLog[j].before - 100

C5_Credit(e) ==
    /\ e.after = IF e.wasBankrupt THEN e.before ELSE e.before + 100
    /\ e.isBankrupt = e.wasBankrupt
C5_Debit(e) ==
    /\ e.after = e.before - Min(100, e.before)
    /\ e.isBankrupt = (e.wasBankrupt \/ e.before < 100)

\* C5 as amended (SpecBoard): of any three consecutive landings on the
\* Bookmaker, by any players, exactly one is a credit of 100 (rejected when
\* the lander is already bankrupt) and the other two are debits of
\* min(100, the lander's money), which bankrupt a lander holding less
\* than 100.
C5_CreditOnceDebitTwice ==
    Len(bookLog) = 3 =>
       \E k \in 1 .. 3 :
          /\ C5_Credit(bookLog[k])
          /\ \A j \in (1 .. 3) \ {k} : C5_Debit(bookLog[j])

\* three landings: a credit of 100, a full debit of 100 and a partial debit
C5_Witness ==
    /\ Len(bookLog) = 3
    /\ \E k \in 1 .. 3 : bookLog[k].after = bookLog[k].before + 100
    /\ \E k \in 1 .. 3 : bookLog[k].before >= 100
                         /\ bookLog[k].after = bookLog[k].before - 100
    /\ \E k \in 1 .. 3 : /\ bookLog[k].before > 0
                         /\ bookLog[k].before < 100
                         /\ bookLog[k].after = 0
                         /\ bookLog[k].isBankrupt

C6_PassDelta(f) ==
    CASE f = 0 -> 50
      [] f = 1 -> -160
      [] f = 3 -> -220
      [] f = 5 -> -300
      [] f = 6 -> -280
      [] f = 8 -> -250
      [] f = 10 -> -400
      [] OTHER -> 0

\* the fields whose land-effect the claim fixes, and the effect
C6_LandFixed(f, hm) == f \in {0, 2, 4, 9, 11} \/ (f \in {1, 3, 5, 6, 8, 10} /\ hm[f] = 0)
C6_LandDelta(f) ==
    CASE f = 0 -> 50
      [] f = 9 -> 120
      [] f = 11 -> -180
      [] OTHER -> 0
C6_AfterPass(pl, f) == [pl EXCEPT !.money = @ + C6_PassDelta(f)]
C6_AfterLand(pl, f) ==
    [pl EXCEPT !.money = @ + C6_LandDelta(f),
               !.suspension = IF f = 4 THEN 3 ELSE @]

\* C6 (SpecBoard): for a non-bankrupt player able to pay in full, passing
\* gives +50 at Beginning, minus the fee at a Match (160, 220, 300, 280,
\* 250, 400 at fields 1, 3, 5, 6, 8, 10) and nothing elsewhere; landing
\* gives +50 at Beginning, +120 at Goal, -180 at Penalty, suspension 3 at
\* the Suspension field, and nothing at Empty and at a Match with an empty
\* pool. It holds of every effect invoked, and of every field's effect
\* applied to every player in every state reached.
C6_FieldTable ==
    /\ [](\A p \in DOMAIN heap : \A f \in 0 .. 11 :
           LET pl == heap[p] IN
           /\ (~pl.bankrupted /\ pl.money + C6_PassDelta(f) >= 0) =>
                passField(f, pl, howMuchMoney, bookmakerPlayers).p
                    = C6_AfterPass(pl, f)
           /\ (/\ ~pl.bankrupted
               /\ pl.money + C6_LandDelta(f) >= 0
               /\ C6_LandFixed(f, howMuchMoney)) =>
                landOnField(f, pl, howMuchMoney, bookmakerPlayers).p
                    = C6_AfterLand(pl, f))
    /\ [][\A f \in 0 .. 11 :
            /\ (/\ PassOver(f)
                /\ ~heap[Mover].bankrupted
                /\ heap[Mover].money + C6_PassDelta(f) >= 0) =>
                 heap'[Mover] = C6_AfterPass(heap[Mover], f)
            /\ (/\ LandOn(f)
                /\ ~heap[Mover].bankrupted
                /\ heap[Mover].money + C6_LandDelta(f) >= 0
                /\ C6_LandFixed(f, howMuchMoney)) =>
                 heap'[Mover] = C6_AfterLand([heap[Mover] EXCEPT !.field = f], f)]_vars

\* a fresh player moved 4 steps: it paid 160 and 220 on the way and stands
\* suspended for 3 on the Suspension field
C6_Witness ==
    /\ pc = "report"
    /\ diceResult = 4
    /\ currentField = 0
    /\ heap[Mover].field = 4
    /\ heap[Mover].money = 620
    /\ heap[Mover].suspension = 3
    /\ ~heap[Mover].bankrupted

\* C7 (Spec): once play runs, the roster never grows; its only change is the
\* removal of a player who is bankrupt; and while it holds one player no
\* round is started and no round-start notification is emitted.
C7_RosterOnlyShrinks ==
    [][pc # "setup" =>
         /\ \/ players' = players
            \/ \E k \in 1 .. Len(players) :
                  /\ players' = Erase(players, k - 1)
                  /\ heap[players[k]].bankrupted
         /\ Len(players') <= Len(players)
         /\ Len(players) <= 1 =>
               /\ ~(pc = "while" /\ pc' = "for")
               /\ roundNumber' = roundNumber
               /\ \A n \in 0 .. MaxRounds + 1 :
                     log' # Append(log, <<"onRound", n>>)]_vars

\* the game ended with one player left and rounds to spare, the removed
\* player's turn summary being the last thing before the winner
C7_Witness ==
    /\ pc = "done"
    /\ Len(players) = 1
    /\ Len(heap) = 2
    /\ roundNumber < rounds
    /\ scoreboard # NULL
    /\ <<"onRound", 1>> \notin {log[k] : k \in 1 .. Len(log)}

\* the positions of the winner notifications in the log
WinNotes == {k \in 1 .. Len(log) : log[k][1] = "onWin"}

PlayerErrors == {"TooManyPlayersException", "TooFewPlayersException"}

\* C9 (Spec): play with fewer than 2 players throws TooFewPlayersException,
\* with more than 11 TooManyPlayersException; 2 to 11 players are accepted;
\* a player-count error leaves the scoreboard without a notification and
\* every player, field and die as constructed.
C9_PlayerCountChecked ==
    /\ [][(pc = "setup" /\ pc' # "setup") =>
            /\ Len(players) < 2 =>
                  pc' = "threw" /\ exc' = "TooFewPlayersException"
            /\ Len(players) > 11 =>
                  pc' = "threw" /\ exc' = "TooManyPlayersException"
            /\ Len(players) \in 2 .. 11 => pc' = "while" /\ exc' = NULL
            /\ <<heap, players, dice, log, howMuchMoney, bookmakerPlayers>>'
                  = <<heap, players, dice, log, howMuchMoney, bookmakerPlayers>>]_vars
    /\ []((pc = "threw" /\ exc \in PlayerErrors) =>
            /\ log = << >>
            /\ \A p \in DOMAIN heap : heap[p] = NewPlayer(p)
            /\ \A f \in MatchFields : howMuchMoney[f] = 0
            /\ bookmakerPlayers = 0)

\* play was called with 12 players, two dice and a scoreboard
C9_Witness ==
    /\ pc = "threw"
    /\ exc = "TooManyPlayersException"
    /\ Len(players) = 12
    /\ Len(dice) = 2
    /\ scoreboard # NULL
    /\ log = << >>

\* C10 as stated, for a round limit of at least 1: with a valid player
\* count, a scoreboard and a number of dice other than 2, play ends in the
\* dice error (TooFewDiceException below 2 dice, TooManyDiceException above)
\* and the scoreboard receives no notification at all.
C10_DiceErrorWithoutNotification ==
    (/\ pc \notin {"setup", "idle"}
     /\ rounds >= 1
     /\ scoreboard # NULL
     /\ Len(dice) # 2
     /\ ~(pc = "threw" /\ exc \in PlayerErrors)) =>
        /\ log = << >>
        /\ pc # "done"
        /\ pc = "threw" =>
              exc = IF Len(dice) < 2 THEN "TooFewDiceException"
                    ELSE "TooManyDiceException"

\* C11 as stated: the dice count is checked when play begins, so with a
\* valid player count, a scoreboard and a number of dice other than 2,
\* play(r) ends in the dice error for every round limit r, 0 included: it
\* never returns normally and never reports a winner.
C11_DiceCheckedWhenPlayBegins ==
    (/\ pc \notin {"setup", "idle"}
     /\ Len(heap) \in MinPlayersAllowed .. MaxPlayersAllowed
     /\ scoreboard # NULL
     /\ Len(dice) # diceCount) =>
        /\ pc # "done"
        /\ WinNotes = {}

\* C12 as stated, its first part: when setScoreBoard was never called, or
\* only with a null pointer, a default no-op scoreboard is in use, so that a
\* play call with a valid configuration does not fail.
C12_NoObserverNoFailure ==
    (/\ scoreboard = NULL
     /\ Len(heap) \in MinPlayersAllowed .. MaxPlayersAllowed
     /\ Len(dice) = diceCount) =>
        pc # "crashed"

\* the round-start notifications received so far, in order
RoundNotes == SelectSeq(log, LAMBDA e : e[1] = "onRound")

IsTurnNote(k) == log[k][1] = "onTurn"

\* the status a turn summary carries for a player in a given state
C13_Status(pl) ==
    IF pl.bankrupted THEN <<"*** bankrut ***">>
    ELSE IF pl.suspension > 0 THEN <<"*** czekanie: ", pl.suspension, " ***">>
    ELSE <<"w grze">>

\* the notifications received so far: round indices count up from 0, no turn
\* summary comes before the first round start, a winner notification is the
\* last one and closes the call, and a bankrupt player has exactly one
\* summary with the bankrupt status, with money 0, and none after it
C13_LogShape ==
    /\ RoundNotes = [k \in 1 .. Len(RoundNotes) |-> <<"onRound", k - 1>>]
    /\ log # << >> => ~IsTurnNote(1)
    /\ WinNotes \subseteq {Len(log)}
    /\ WinNotes # {} <=> pc = "done"
    /\ \A k \in 1 .. Len(log) :
          (IsTurnNote(k) /\ log[k][3] = <<"*** bankrut ***">>) =>
             /\ log[k][5] = 0
             /\ \A j \in 1 .. Len(log) :
                   (j # k /\ IsTurnNote(j) /\ log[j][2] = log[k][2]) =>
                      j < k /\ log[j][3] # <<"*** bankrut ***">>
    /\ \A p \in DOMAIN heap :
          (heap[p].bankrupted /\ ~(pc \in {"pass", "report"} /\ Mover = p)) =>
             \E k \in 1 .. Len(log) :
                 /\ IsTurnNote(k)
                 /\ log[k][2] = heap[p].name
                 /\ log[k][3] = <<"*** bankrut ***">>

PlayerTurns(n) == SelectSeq(log, LAMBDA e : e[1] = "onTurn" /\ e[2] = n)

SuspensionField == CHOOSE f \in FieldIdx : FieldAt(f).kind = "YellowCard"

Waiting(k) == <<"*** czekanie: ", k, " ***">>

\* what the summaries of one player show around a suspension
C14_Reported(n) ==
    LET t == PlayerTurns(n) IN
    \A k \in 1 .. Len(t) :
       /\ (/\ t[k][4] = getFieldName(SuspensionField)
           /\ t[k][3] # <<"*** bankrut ***">>
           /\ k > 1 => \/ t[k - 1][4] # getFieldName(SuspensionField)
                       \/ t[k - 1][3] = Waiting(1)) => t[k][3] = Waiting(3)
       /\ t[k][3] = Waiting(3) =>
             /\ k + 1 <= Len(t) =>
                   t[k + 1] = <<"onTurn", n, Waiting(2), t[k][4], t[k][5]>>
             /\ k + 2 <= Len(t) =>
                   t[k + 2] = <<"onTurn", n, Waiting(1), t[k][4], t[k][5]>>
             /\ k + 3 <= Len(t) =>
                   t[k + 3][3] \in {<<"w grze">>, <<"*** bankrut ***">>,
                                    Waiting(3)}

\* C14 (SpecFixed): a player who lands on the yellow card (suspension 3)
\* without being bankrupt is reported "czekanie: 3" on that turn; on its
\* next two turns it neither rolls nor moves and is reported "czekanie: 2"
\* and "czekanie: 1" at the same field with the same money; on the third
\* following turn it is active again: the dice are rolled and it moves.
C14_Suspension ==
    /\ [](\A p \in DOMAIN heap : C14_Reported(heap[p].name))
    /\ [][/\ (pc = "pass" /\ pc' = "report") =>
                /\ heap'[Mover].field = nextField
                /\ (nextField = SuspensionField /\ ~heap'[Mover].bankrupted) =>
                      heap'[Mover].suspension = 3
          /\ (pc = "for" /\ i < Len(players)) =>
                LET s == heap[Mover].suspension IN
                /\ s \in {2, 3} =>
                      /\ pc' = "report"
                      /\ rolled' = rolled
                      /\ heap' = [heap EXCEPT ![Mover].suspension = s - 1]
                      /\ howMuchMoney' = howMuchMoney
                      /\ bookmakerPlayers' = bookmakerPlayers
                /\ s \in {0, 1} =>
                      /\ pc' = "pass"
                      /\ rolled' = rolled + 1
                      /\ diceResult' = FixedRoll
                      /\ heap' = [heap EXCEPT ![Mover].suspension = 0]]_vars

\* test 100 has ended: Ronaldo landed on the yellow card in round 0 with
\* 620, waited through rounds 1 and 2 and moved to the Bookmaker in round 3
C14_Witness ==
    /\ pc = "done"
    /\ fixedRolls = <<2, 3, 4>>
    /\ Len(heap) = 3
    /\ LET t == PlayerTurns(3) IN
       /\ Len(t) >= 4
       /\ t[1] = <<"onTurn", 3, Waiting(3), "Zolta kartka", 620>>
       /\ t[2] = <<"onTurn", 3, Waiting(2), "Zolta kartka", 620>>
       /\ t[3] = <<"onTurn", 3, Waiting(1), "Zolta kartka", 620>>
       /\ t[4] = <<"onTurn", 3, <<"w grze">>, "Bukmacher", 140>>

\* C15 (SpecFixed): when the removal of a bankrupt player leaves one player
\* in the roster, play stops at once: no later player of the round gets a
\* turn (no summary, no roll), no further round starts, and the remaining
\* player is reported as the winner whatever money it holds.
C15_LastPlayerWins ==
    /\ []((pc = "done" /\ Len(players) = 1) =>
            /\ log[Len(log)] = <<"onWin", heap[players[1]].name>>
            /\ log[Len(log) - 1][1] = "onTurn"
            /\ log[Len(log) - 1][3] = <<"*** bankrut ***">>)
    /\ [][/\ (pc = "report" /\ heap[Mover].bankrupted /\ Len(players) = 2) =>
                /\ Len(players') = 1
                /\ pc' = "while"
          /\ (pc = "while" /\ Len(players) = 1) =>
                /\ pc' = "done"
                /\ log' = Append(log, <<"onWin", heap[players[1]].name>>)
                /\ rolled' = rolled
                /\ heap' = heap]_vars

\* test 600: the first total is 12, Player-1 went bankrupt in round 0 and
\* Player-2 won untouched, with one roll made in the whole game
C15_Witness ==
    /\ pc = "done"
    /\ fixedRolls = <<12, 1>>
    /\ rounds = 5
    /\ log = << <<"onRound", 0>>,
                <<"onTurn", 1, <<"*** bankrut ***">>, "Poczatek sezonu", 0>>,
                <<"onWin", 2>> >>
    /\ heap[2] = NewPlayer(2)
    /\ rolled = 1

\* the scoreboard of test 100, lines 440-463, with Lewandowski, Messi and
\* Ronaldo as players 1, 2 and 3
C16_Expected ==
    << <<"onRound", 0>>,
       <<"onTurn", 1, <<"w grze">>, "Dzien wolny od treningu", 840>>,
       <<"onTurn", 2, <<"w grze">>, "Mecz z Liechtensteinem", 840>>,
       <<"onTurn", 3, Waiting(3), "Zolta kartka", 620>>,
       <<"onRound", 1>>,
       <<"onTurn", 1, Waiting(3), "Zolta kartka", 620>>,
       <<"onTurn", 2, <<"w grze">>, "Mecz z Arabia Saudyjska", 540>>,
       <<"onTurn", 3, Waiting(2), "Zolta kartka", 620>>,
       <<"onRound", 2>>,
       <<"onTurn", 1, Waiting(2), "Zolta kartka", 620>>,
       <<"onTurn", 2, <<"w grze">>, "Mecz z Francja", 290>>,
       <<"onTurn", 3, Waiting(1), "Zolta kartka", 620>>,
       <<"onRound", 3>>,
       <<"onTurn", 1, Waiting(1), "Zolta kartka", 620>>,
       <<"onTurn", 2, <<"w grze">>, "Poczatek sezonu", 340>>,
       <<"onTurn", 3, <<"w grze">>, "Bukmacher", 140>>,
       <<"onRound", 4>>,
       <<"onTurn", 1, <<"w grze">>, "Mecz z Argentyna", 665>>,
       <<"onTurn", 2, <<"w grze">>, "Dzien wolny od treningu", 180>>,
       <<"onTurn", 3, <<"*** bankrut ***">>, "Mecz z Francja", 0>>,
       <<"onRound", 5>>,
       <<"onTurn", 1, <<"w grze">>, "Poczatek sezonu", 315>>,
       <<"onTurn", 2, <<"*** bankrut ***">>, "Zolta kartka", 0>>,
       <<"onWin", 1>> >>

\* the game of test 100 was started with a round limit past round 5
C16_Game ==
    /\ fixedRolls = <<2, 3, 4>>
    /\ Len(heap) = 3
    /\ pc # "setup"
    /\ rounds > 5

\* C16 (SpecFixed): three players with 1000 each, dice totals 2, 3, 4
\* repeating and used only by turns that roll, play(100): round 0 ends with
\* 840 on field 2, 840 on field 3 and the third player suspended with 620 on
\* field 4; the game runs rounds 0 to 5 and no more; the third player goes
\* bankrupt in round 4, the second in round 5; the first is the only winner,
\* with 315, more than either eliminated player holds.
C16_Scenario ==
    C16_Game =>
       /\ Len(log) <= Len(C16_Expected)
       /\ log = SubSeq(C16_Expected, 1, Len(log))
       /\ roundNumber <= 6
       /\ pc = "done" =>
             /\ log = C16_Expected
             /\ players = <<1>>
             /\ heap[1].money = 315 /\ ~heap[1].bankrupted
             /\ heap[2].money = 0 /\ heap[2].bankrupted
             /\ heap[3].money = 0 /\ heap[3].bankrupted
             /\ rolled = 13
       /\ (pc = "while" /\ roundNumber = 1) =>
             /\ heap[1].money = 840 /\ heap[1].field = 2
             /\ heap[2].money = 840 /\ heap[2].field = 3
             /\ heap[3].money = 620 /\ heap[3].field = 4
             /\ heap[3].suspension = 3

\* test 100 as written, play(100), has ended after round 5
C16_Witness ==
    /\ C16_Game
    /\ rounds = PlayHundred
    /\ pc = "done"
    /\ roundNumber = 6
    /\ log[Len(log)] = <<"onWin", 1>>

\* the players of the roster holding the greatest money
Leaders ==
    {p \in {players[k] : k \in 1 .. Len(players)} :
        \A k \in 1 .. Len(players) : heap[players[k]].money <= heap[p].money}

\* C17 as stated: when play ends because the round limit is used up and the
\* leading players are tied on money, the scoreboard receives either no
\* winner notification or one for each tied player, never one for only one
\* of them.
C17_TieNeverOneWinner ==
    (/\ pc = "done"
     /\ scoreboard # NULL
     /\ roundNumber >= 1
     /\ Len(players) > 1
     /\ Cardinality(Leaders) > 1) =>
        LET won == {log[k][2] : k \in WinNotes} IN
        won = {} \/ won = {heap[p].name : p \in Leaders}

\* the position in the log of the latest round-start notification
LastRoundNote ==
    CHOOSE k \in 1 .. Len(log) :
        log[k][1] = "onRound" /\ \A j \in k + 1 .. Len(log) : log[j][1] # "onRound"

\* the players whose turn was summarised in the running round, in order
RoundTurns ==
    [k \in 1 .. Len(log) - LastRoundNote |-> log[LastRoundNote + k][2]]

\* the roster when the running round started: the registered players, in
\* registration order, less those reported bankrupt in an earlier round
RoundRoster ==
    SelectSeq([p \in 1 .. Len(heap) |-> p],
              LAMBDA p : ~\E j \in 1 .. LastRoundNote :
                             /\ log[j][1] = "onTurn"
                             /\ log[j][2] = heap[p].name
                             /\ log[j][3] = <<"*** bankrut ***">>)

\* C19 (Spec): a removal during a round neither skips nor repeats anyone.
\* While a round runs, the turns taken so far are those of the first players
\* of the roster the round started with, one each, in registration order,
\* and the player in turn is the next of that roster; a round that is not
\* cut short has given every player of that roster exactly one turn; and
\* the turn after a removal is that of the player who followed the removed
\* one.
C19_EveryoneOnce ==
    /\ []((scoreboard # NULL /\ pc \in {"for", "pass", "report"}) =>
            /\ Len(RoundTurns) <= Len(RoundRoster)
            /\ RoundTurns = SubSeq(RoundRoster, 1, Len(RoundTurns))
            /\ i < Len(players) => Mover = RoundRoster[Len(RoundTurns) + 1]
            /\ (pc = "for" /\ i >= Len(players)) => RoundTurns = RoundRoster)
    /\ [][(pc = "report" /\ pc' = "for") =>
            IF i + 1 < Len(players)
            THEN i' < Len(players') /\ players'[i' + 1] = players[i + 2]
            ELSE i' = Len(players')]_vars

\* round 0 of three players has run to its end: player 1 went bankrupt on
\* its turn and was removed, players 2 and 3 then took their turns
C19_Witness ==
    /\ pc = "for"
    /\ scoreboard # NULL
    /\ Len(heap) = 3
    /\ players = <<2, 3>>
    /\ i = 2
    /\ heap[1].bankrupted
    /\ RoundTurns = <<1, 2, 3>>

\* a move by a positive multiple of the board size has been made
FullLapMoved ==
    /\ pc = "report"
    /\ diceResult > 0
    /\ diceResult % FieldCount = 0

\* C20 as stated: when the steps are a positive multiple of the board size,
\* playerMove invokes only the land-effect of the field the player stands on
\* and no pass-effect of a field of the lap.
C20_OnlyLandEffect ==
    FullLapMoved =>
        /\ \A k \in 1 .. Len(effects) : effects[k][1] # "pass"
        /\ effects[Len(effects)] = <<"land", currentField>>

\* C20 amended (SpecBoard): when the steps are a positive multiple of the
\* board size, playerMove invokes the pass-effect of each of the steps - 1
\* fields that follow the player's field, in board order (every other field
\* of the board on a roll of 12), and then the land-effect of the field the
\* player started from, where it stands again.
C20_FullLapPassesThenLands ==
    FullLapMoved =>
        /\ Len(effects) = diceResult + 1
        /\ \A k \in 1 .. diceResult - 1 :
              effects[k] = <<"pass", (currentField + k) % FieldCount>>
        /\ effects[diceResult] = <<"move", currentField>>
        /\ effects[diceResult + 1] = <<"land", currentField>>
        /\ heap[Mover].field = currentField

\* a player standing on the Bookmaker moved 12 steps: eleven pass-effects,
\* the first on field 8, and it is on the Bookmaker again
C20_Witness ==
    /\ FullLapMoved
    /\ diceResult = 12
    /\ currentField = 7
    /\ Len(effects) = 13
    /\ effects[1] = <<"pass", 8>>
    /\ effects[11] = <<"pass", 6>>
    /\ heap[Mover].field = 7

\* C21 (SpecBoard): playerMove with 0 steps invokes no pass-effect and then
\* the land-effect of the field the player already stands on, leaving its
\* field index as it was: a player who is not bankrupt gains 50 on the
\* Beginning, is suspended for 3 on the yellow card, and the Bookmaker's
\* counter advances.
C21_ZeroSteps ==
    [][(pc = "pass" /\ diceResult = 0) =>
          LET f == heap[Mover].field
              before == heap[Mover]
              after == heap'[Mover]
          IN /\ pc' = "report"
             /\ effects' = << <<"move", f>>, <<"land", f>> >>
             /\ after.field = f
             /\ f = currentField
             /\ (FieldAt(f).kind = "Beginning" /\ ~before.bankrupted) =>
                   after.money = before.money + 50
             /\ FieldAt(f).kind = "YellowCard" => after.suspension = 3
             /\ FieldAt(f).kind = "Bookmaker" =>
                   bookmakerPlayers' = (bookmakerPlayers + 1) % 3
             /\ FieldAt(f).kind # "Bookmaker" =>
                   bookmakerPlayers' = bookmakerPlayers]_vars

\* a player moved 7 steps to the Bookmaker, where the counter went from 0 to
\* 1, and then 0 steps: the counter is 2 and the player is still there
C21_Witness ==
    /\ pc = "report"
    /\ diceResult = 0
    /\ currentField = 7
    /\ heap[Mover].field = 7
    /\ bookmakerPlayers = 2
    /\ effects = << <<"move", 7>>, <<"land", 7>> >>

\* C22 (Spec): a player who becomes bankrupt at a pass-effect still completes
\* the move. Every later pass-effect and the land-effect are invoked on it:
\* a Match passed gains 0, the Beginning's gift and a Match payout are
\* rejected (the pool is kept), the player stays at money 0; it is relocated
\* to the destination, and the turn summary shows the bankrupt status,
\* money 0 and the destination field.
C22_BankruptCompletesMove ==
    /\ []((pc = "report" /\ heap[Mover].bankrupted) =>
            /\ diceResult >= 1
            /\ Len(effects) = diceResult + 1
            /\ \A k \in 1 .. diceResult - 1 :
                  effects[k] = <<"pass", (currentField + k) % FieldCount>>
            /\ effects[diceResult + 1] = <<"land", nextField>>
            /\ heap[Mover].field = nextField
            /\ heap[Mover].money = 0)
    /\ [][/\ (pc = "pass" /\ heap[Mover].bankrupted) =>
                /\ heap'[Mover].money = 0
                /\ heap'[Mover].bankrupted
                /\ howMuchMoney' = howMuchMoney
                /\ call'.op = "take" => call'.ret = FALSE
                /\ IF counter + 1 < diceResult
                   THEN pc' = "pass" /\ counter' = counter + 1
                   ELSE pc' = "report" /\ heap'[Mover].field = nextField
          /\ (pc = "report" /\ heap[Mover].bankrupted /\ scoreboard # NULL
                /\ pc' # "crashed") =>
                log' = Append(log, <<"onTurn", heap[Mover].name,
                                     <<"*** bankrut ***">>,
                                     getFieldName(nextField), 0>>)]_vars

\* a player with 320 on field 6 rolled 10: it went bankrupt passing field 10,
\* was refused the gift of field 0 and was reported on the yellow card,
\* which ended the game of two
C22_Witness ==
    /\ pc = "while"
    /\ scoreboard # NULL
    /\ Len(log) > 0
    /\ log[Len(log)] = <<"onTurn", 1, <<"*** bankrut ***">>, "Zolta kartka", 0>>
    /\ heap[1].field = 4
    /\ currentField = 6
    /\ diceResult = 10
    /\ effects[4] = <<"pass", 10>>
    /\ effects[6] = <<"pass", 0>>
    /\ howMuchMoney[10] = 70

BookmakerField == CHOOSE f \in FieldIdx : FieldAt(f).kind = "Bookmaker"

\* C23 (SpecBoard): the Bookmaker's counter always equals the number of
\* landings on the field so far, modulo 3. Every landing advances it by one,
\* also when the lander is already bankrupt and its credit is refused and
\* when the debit is only partial; no pass and no other step changes it;
\* the landings numbered 0, 3, 6, ... are the credited ones, the others are
\* debits.
C23_BookmakerCounter ==
    /\ [](bookmakerPlayers = bookLandings % 3)
    /\ [][IF LandOn(BookmakerField)
          THEN /\ bookmakerPlayers' = (bookmakerPlayers + 1) % 3
               /\ bookLandings' = bookLandings + 1
               /\ call'.arg = 100
               /\ call'.op = IF bookLandings % 3 = 0 THEN "take" ELSE "pay"
          ELSE /\ bookmakerPlayers' = bookmakerPlayers
               /\ bookLandings' = bookLandings]_vars

\* three landings were made and the counter is back at 0; the last was by a
\* player who had gone bankrupt on the way, the one before a partial debit
C23_Witness ==
    /\ pc = "report"
    /\ bookLandings = 3
    /\ bookmakerPlayers = 0
    /\ bookLog[3].wasBankrupt
    /\ bookLog[2].before < 100
    /\ ~bookLog[2].wasBankrupt
    /\ bookLog[2].isBankrupt

\* the weights of the Match fields as twice their value: 1.0, 2.5 and 4.0
C24_TwiceWeight(f) ==
    CASE f \in {1, 3} -> 2
      [] f \in {5, 6, 8} -> 5
      [] f = 10 -> 8

\* c is pool x weight with the fraction dropped
C24_Floor(c, pool, f) ==
    /\ 2 * c <= pool * C24_TwiceWeight(f)
    /\ pool * C24_TwiceWeight(f) < 2 * (c + 1)

\* C24 (SpecFixed): a Match payout that is accepted credits the lander with
\* pool x weight (1.0 on fields 1 and 3, 2.5 on 5, 6 and 8, 4.0 on 10) with
\* any half dropped, and empties the pool; a pool of 45 at weight 2.5 pays
\* 112.
C24_PayoutTruncates ==
    /\ [](Payout(5, [f \in MatchFields |-> 45]) = 112)
    /\ [][\A f \in MatchFields :
            (LandOn(f) /\ ~heap[Mover].bankrupted) =>
               /\ call' = [op |-> "take", arg |-> heap'[Mover].money - heap[Mover].money,
                           ret |-> TRUE]
               /\ C24_Floor(heap'[Mover].money - heap[Mover].money,
                            howMuchMoney[f], f)
               /\ howMuchMoney' = [howMuchMoney EXCEPT ![f] = 0]]_vars

\* the first player landed on field 5 while its pool held 235 and was paid
\* 587 for 587.5
C24_Witness ==
    /\ pc = "report"
    /\ fixedRolls = TruncationRolls
    /\ rolled = 10
    /\ heap[Mover].field = 5
    /\ paidSince[5] = << >>
    /\ call = [op |-> "take", arg |-> 587, ret |-> TRUE]
    /\ howMuchMoney[5] = 0

\* C25 (Spec): a turn on which the player is still suspended after
\* waitIfNeeded lowers that player's suspension counter by one and changes
\* nothing else: no die is rolled, the player's money and field, every other
\* player, the roster, the Bookmaker's counter and every Match pool stay as
\* they were, through the turn summary as well.
C25_WaitingTurnFrame ==
    [][/\ (pc = "for" /\ pc' = "report") =>
             /\ heap[Mover].suspension >= 2
             /\ heap' = [heap EXCEPT ![Mover].suspension = @ - 1]
             /\ rolled' = rolled
             /\ players' = players
             /\ bookmakerPlayers' = bookmakerPlayers
             /\ howMuchMoney' = howMuchMoney
       /\ (pc = "report" /\ heap[Mover].suspension \in {1, 2}
             /\ ~heap[Mover].bankrupted) =>
             /\ heap' = heap
             /\ rolled' = rolled
             /\ players' = players
             /\ bookmakerPlayers' = bookmakerPlayers
             /\ howMuchMoney' = howMuchMoney]_vars

\* the first of two players, suspended on the yellow card in round 0, has
\* waited its turn of round 1: two rolls were made, both in round 0
C25_Witness ==
    /\ pc = "report"
    /\ roundNumber = 1
    /\ i = 0
    /\ Len(players) = 2
    /\ heap[Mover].suspension = 2
    /\ heap[Mover].field = 4
    /\ heap[Mover].money = 620
    /\ rolled = 2

\* the field whose effect a step of playerMove invokes
C26_EffectField ==
    IF counter + 1 < diceResult
    THEN (currentField + counter + 1) % FieldCount
    ELSE nextField

\* C26 (Spec): the turn of one player never changes the money, field,
\* suspension or bankrupt flag of another player; a pass-effect or
\* land-effect changes only the moving player and the state of the field it
\* is invoked on (that Match field's pool, or the Bookmaker's counter).
C26_OnlyTheMover ==
    [][/\ pc \in {"for", "pass", "report"} =>
             /\ DOMAIN heap' = DOMAIN heap
             /\ \A p \in DOMAIN heap :
                   (i >= Len(players) \/ p # players[i + 1]) =>
                      heap'[p] = heap[p]
       /\ pc = "pass" =>
             /\ \A g \in MatchFields \ {C26_EffectField} :
                   howMuchMoney'[g] = howMuchMoney[g]
             /\ FieldAt(C26_EffectField).kind # "Bookmaker" =>
                   bookmakerPlayers' = bookmakerPlayers
       /\ pc \in {"for", "report"} =>
             /\ howMuchMoney' = howMuchMoney
             /\ bookmakerPlayers' = bookmakerPlayers]_vars

\* the second of two players has completed a move that cost it money, after
\* the first had paid on its own move; the first holds what it held
C26_Witness ==
    /\ pc = "report"
    /\ i = 1
    /\ Len(players) = 2
    /\ heap[players[1]].money = 620
    /\ heap[players[1]].field = 4
    /\ heap[players[1]].suspension = 3
    /\ heap[players[2]].money < 1000
    /\ effects # << >>

\* C27 (Spec): a wrong number of dice shows on the first roll. With a valid
\* player count, a scoreboard, a number of dice other than 2 and a round
\* limit of at least 1, play announces round 0 and then the first player's
\* roll throws the dice error: one onRound(0) and no turn summary were
\* sent, no player's money or field has changed and no winner is reported.
C27_DiceErrorOnFirstRoll ==
    /\ []((/\ pc \notin {"setup", "idle"}
           /\ rounds >= 1
           /\ scoreboard # NULL
           /\ Len(heap) \in 2 .. 11
           /\ Len(dice) # 2) =>
             /\ pc \in {"while", "for", "threw"}
             /\ roundNumber = 0
             /\ i = 0
             /\ log = IF pc = "while" THEN << >> ELSE << <<"onRound", 0>> >>
             /\ pc = "threw" =>
                   exc = IF Len(dice) < 2 THEN "TooFewDiceException"
                         ELSE "TooManyDiceException"
             /\ \A p \in DOMAIN heap : heap[p] = NewPlayer(p)
             /\ Len(players) = Len(heap))
    /\ [][(/\ rounds >= 1
           /\ scoreboard # NULL
           /\ Len(dice) # 2) =>
             /\ pc = "while" => pc' = "for"
             /\ pc = "for" => pc' = "threw"]_vars

\* play(1) with three dice and two players has thrown
C27_Witness ==
    /\ pc = "threw"
    /\ exc = "TooManyDiceException"
    /\ Len(dice) = 3
    /\ Len(heap) = 2
    /\ rounds = 1
    /\ log = << <<"onRound", 0>> >>

Roster == {players[k] : k \in 1 .. Len(players)}

\* C29 (Spec): a player leaves the roster once, in the turn in which it
\* becomes bankrupt: it becomes bankrupt only while it moves, is erased when
\* that turn is reported and never returns. Between turns of a running game
\* the roster therefore holds no bankrupt player and at least one player,
\* and the winner reported is not bankrupt.
C29_RemovedWhenBankrupt ==
    /\ [](pc \in {"while", "for", "done"} =>
            /\ Len(players) >= 1
            /\ Cardinality(Roster) = Len(players)
            /\ \A p \in Roster : ~heap[p].bankrupted
            /\ (pc = "done" /\ scoreboard # NULL) =>
                  \E p \in Roster : /\ log[Len(log)] = <<"onWin", heap[p].name>>
                                    /\ ~heap[p].bankrupted)
    /\ [][(pc \in {"while", "for", "pass", "report"}) =>
            \A p \in DOMAIN heap :
               /\ (~heap[p].bankrupted /\ heap'[p].bankrupted) =>
                     pc = "pass" /\ p = players[i + 1]
               /\ (p \in Roster /\ p \notin Roster') =>
                     /\ pc = "report"
                     /\ p = players[i + 1]
                     /\ heap[p].bankrupted
                     /\ Len(players') = Len(players) - 1
               /\ (pc = "report" /\ p = players[i + 1] /\ heap[p].bankrupted
                     /\ pc' # "crashed") =>
                     p \notin Roster'
               /\ p \notin Roster => p \notin Roster']_vars

\* the second of three players went bankrupt and was erased; the first and
\* third play on
C29_Witness ==
    /\ pc = "for"
    /\ Len(heap) = 3
    /\ heap[2].bankrupted
    /\ players = <<1, 3>>
    /\ i = 1

\* C30 (SpecFixed): in every state of a game each player's suspension
\* counter is in 0..3 and its field index in 0..11, and a player whose
\* counter is above 0 stands on the yellow card (field 4); a player is
\* relocated only when its counter is 0.
C30_SuspendedStaysPut ==
    /\ [](\A p \in DOMAIN heap :
             /\ heap[p].suspension \in 0 .. 3
             /\ heap[p].field \in 0 .. 11
             /\ heap[p].suspension > 0 => heap[p].field = 4)
    /\ [][\A p \in DOMAIN heap :
             heap'[p].field # heap[p].field => heap[p].suspension = 0]_vars

\* round 3 of test 100: the third player's counter has reached 0 on the
\* yellow card and its move to the Bookmaker has begun
C30_Witness ==
    /\ pc = "pass"
    /\ fixedRolls = <<2, 3, 4>>
    /\ Len(heap) = 3
    /\ roundNumber = 3
    /\ i = 2
    /\ heap[3].field = 4
    /\ heap[3].suspension = 0
    /\ heap[1].suspension = 1
    /\ nextField = 7

====
